---- MODULE Spec2Model ----
(***************************************************************************)
(* A model of the dropblox sample AI (src/src/main.py): the Block and      *)
(* Board classes and the placement search of the __main__ section.         *)
(*                                                                         *)
(* Python lists are modelled as sequences; a Python index i is the         *)
(* sequence index i + 1.  A Point is a record [i, j].  A Block is a record *)
(* [center, offsets, translation, rotation].                               *)
(***************************************************************************)
EXTENDS Integers, Sequences, FiniteSets, TLC

VARIABLES
    bitmap,     \* Board.bitmap of the board under operation
    block,      \* Board.block: the current piece, shared with the search's `block`
    preview,    \* Board.preview
    op,         \* name of the last operation called on the board
    arg,        \* the command list handed to the last do_commands call
    ret,        \* what the last operation returned or raised
    nops,       \* number of operations called so far
    pc,         \* position of the placement search
    shift,      \* the outer loop variable i of the search
    variant,    \* the inner loop variable _ of the search
    moves,      \* the list `moves` of the search
    choices,    \* the dict `choices` of the search: score -> move list
    executed,   \* log of the successful executions of the search, in order
    nexec,      \* number of do_commands calls made by the search
    todo,       \* what the search printed
    before      \* the value a pure function was applied to

vars == <<bitmap, block, preview, op, arg, ret, nops,
          pc, shift, variant, moves, choices, executed, nexec, todo, before>>

boardVars == <<bitmap, block, preview, op, arg, ret, nops>>
searchVars == <<pc, shift, variant, moves, choices, executed, nexec, todo>>

-----------------------------------------------------------------------------
(* Program constants *)

rows == 33
cols == 12
Shifts == 12
Variants == 3

-----------------------------------------------------------------------------
(* Bounds of the model *)

MaxPreview == 2     \* length of the initial preview queue
MaxOps == 3         \* operations called on the board in one behaviour
MaxCalls == 2       \* methods of Block called on the piece in one behaviour
MaxR == 3           \* rows of a grid handed to remove_rows
MaxLen == 3         \* tokens of a command list handed to one do_commands call
MaxQueue == 3       \* pieces of the preview queue of that call
MaxProbe == 13      \* `left` tokens one left-probing loop appends
MaxC == 3           \* columns of a grid handed to remove_rows
MaxSpin == 1        \* starting values -MaxSpin..MaxSpin of the rotation counter
MaxMove == 1        \* starting translations -MaxMove..MaxMove in each direction

-----------------------------------------------------------------------------
(* Point and Block *)

Point(i, j) == [i |-> i, j |-> j]

Block(center, offsets) ==
    [center |-> center, offsets |-> offsets,
     translation |-> Point(0, 0), rotation |-> 0]

squares(b) ==
    IF b.rotation % 2 # 0
    THEN [n \in 1..Len(b.offsets) |->
            Point(b.center.i + b.translation.i + (2 - b.rotation) * b.offsets[n].j,
                  b.center.j + b.translation.j - (2 - b.rotation) * b.offsets[n].i)]
    ELSE [n \in 1..Len(b.offsets) |->
            Point(b.center.i + b.translation.i + (1 - b.rotation) * b.offsets[n].i,
                  b.center.j + b.translation.j + (1 - b.rotation) * b.offsets[n].j)]

left(b) == [b EXCEPT !.translation.j = @ - 1]
right(b) == [b EXCEPT !.translation.j = @ + 1]
up(b) == [b EXCEPT !.translation.i = @ - 1]
down(b) == [b EXCEPT !.translation.i = @ + 1]
rotate(b) == [b EXCEPT !.rotation = @ + 1]
unrotate(b) == [b EXCEPT !.rotation = @ - 1]

reset_position(b) == [b EXCEPT !.translation = Point(0, 0), !.rotation = 0]

(* Line 103: the commands that Block.do_command accepts. *)
MoveTokens == {"left", "right", "up", "down", "rotate"}

do_command(b, command) ==
    CASE command = "left" -> left(b)
      [] command = "right" -> right(b)
      [] command = "up" -> up(b)
      [] command = "down" -> down(b)
      [] command = "rotate" -> rotate(b)

(* Block.do_commands, lines 107-109, from command n on: every command is    *)
(* applied unchecked; the assert of do_command stops at a command that is   *)
(* no move, with the commands before it applied.                            *)
RECURSIVE block_do_commands_loop(_, _, _)
block_do_commands_loop(b, commands, n) ==
    IF n > Len(commands) THEN [kind |-> "None", block |-> b]
    ELSE IF commands[n] \notin MoveTokens
    THEN [kind |-> "AssertionError", block |-> b]
    ELSE block_do_commands_loop(do_command(b, commands[n]), commands, n + 1)

block_do_commands(b, commands) == block_do_commands_loop(b, commands, 1)

-----------------------------------------------------------------------------
(* Board.check *)

check(bm, b) ==
    \A n \in 1..Len(b.offsets) :
        LET square == squares(b)[n] IN
        ~(square.i < 0 \/ square.i >= rows \/
          square.j < 0 \/ square.j >= cols \/
          bm[square.i + 1][square.j + 1] # 0)

(* The checked_* methods: [ok |-> returned value, block |-> the block after] *)

checked_left(bm, b) ==
    IF check(bm, left(b)) THEN [ok |-> TRUE, block |-> left(b)]
    ELSE [ok |-> FALSE, block |-> right(left(b))]

checked_right(bm, b) ==
    IF check(bm, right(b)) THEN [ok |-> TRUE, block |-> right(b)]
    ELSE [ok |-> FALSE, block |-> left(right(b))]

checked_down(bm, b) ==
    IF check(bm, down(b)) THEN [ok |-> TRUE, block |-> down(b)]
    ELSE [ok |-> FALSE, block |-> up(down(b))]

checked_up(bm, b) ==
    IF check(bm, up(b)) THEN [ok |-> TRUE, block |-> up(b)]
    ELSE [ok |-> FALSE, block |-> down(up(b))]

checked_rotate_no_revert(bm, b) ==
    IF check(bm, rotate(b)) THEN [ok |-> TRUE, block |-> rotate(b)]
    ELSE [ok |-> FALSE, block |-> rotate(b)]

checked_rotate(bm, b) ==
    IF check(bm, rotate(b)) THEN [ok |-> TRUE, block |-> rotate(b)]
    ELSE [ok |-> FALSE, block |-> unrotate(rotate(b))]

-----------------------------------------------------------------------------
(* Board.remove_rows *)

all(row) == \A c \in 1..Len(row) : row[c] # 0

NotFull(row) == ~all(row)

remove_rows_refill_below(bm) ==
    LET nrows == Len(bm)
        ncols == Len(bm[1])
        new_bitmap == SelectSeq(bm, NotFull)
    IN  new_bitmap \o [i \in 1..(nrows - Len(new_bitmap)) |-> [c \in 1..ncols |-> 0]]

remove_rows(bm) ==
    LET nrows == Len(bm)
        ncols == Len(bm[1])
        new_bitmap == SelectSeq(bm, NotFull)
    IN  [i \in 1..(nrows - Len(new_bitmap)) |-> [c \in 1..ncols |-> 0]] \o new_bitmap

-----------------------------------------------------------------------------
(* Board.place *)

NoBlock == Block(Point(0, 0), <<>>)

RECURSIVE place_loop(_, _)
place_loop(bm, b) ==
    IF check(bm, b) THEN place_loop(bm, down(b)) ELSE b

(* Python list indexing: an index in -n..-1 counts from the end, an index     *)
(* outside -n..n-1 raises IndexError.                                         *)
py_index(x, n) == IF x < 0 THEN x + n ELSE x

indexable(bm, square) ==
    /\ square.i >= -Len(bm) /\ square.i < Len(bm)
    /\ square.j >= -Len(bm[1]) /\ square.j < Len(bm[1])

(* Lines 177-179: the piece falls until it is illegal, then steps back up. *)
place_settle_no_up(bm, b) == place_loop(bm, b)

place_settle(bm, b) == up(place_loop(bm, b))

(* Line 181: the merge is written to a deep copy, so self.bitmap keeps its    *)
(* value whatever the merged grid is.                                         *)
place_deep_copy_aliased(bm, merged) == merged

place_deep_copy(bm, merged) == bm

(* The loop of lines 182-183 from square n on: new_bitmap[square.i][square.j] = 1 *)
RECURSIVE place_merge(_, _, _)
place_merge(new_bitmap, sq, n) ==
    IF n > Len(sq) THEN new_bitmap
    ELSE place_merge(
            [new_bitmap EXCEPT ![py_index(sq[n].i, Len(new_bitmap)) + 1]
                                [py_index(sq[n].j, Len(new_bitmap[1])) + 1] = 1],
            sq, n + 1)

(* Line 188: the block and the preview of the returned board. *)
place_next_reversed(pv) ==
    [block |-> pv[1], preview |-> [k \in 1..(Len(pv) - 1) |-> pv[Len(pv) + 1 - k]]]

place_next(pv) == [block |-> pv[1], preview |-> SubSeq(pv, 2, Len(pv))]

place(bm, b, pv) ==
    LET settled == place_settle(bm, b)
        sq == squares(settled)
        merged == place_merge(bm, sq, 1)
    IN  IF \E n \in 1..Len(sq) : ~indexable(bm, sq[n])
        THEN [kind |-> "IndexError", self_block |-> settled, self_bitmap |-> bm,
              merged |-> <<>>, bitmap |-> <<>>, block |-> NoBlock, preview |-> <<>>]
        ELSE IF Len(pv) = 0
        THEN [kind |-> "None", self_block |-> settled,
              self_bitmap |-> place_deep_copy(bm, merged),
              merged |-> merged, bitmap |-> <<>>, block |-> NoBlock, preview |-> <<>>]
        ELSE [kind |-> "Board", self_block |-> settled,
              self_bitmap |-> place_deep_copy(bm, merged),
              merged |-> merged, bitmap |-> remove_rows(merged),
              block |-> place_next(pv).block, preview |-> place_next(pv).preview]

-----------------------------------------------------------------------------
(* Board.do_commands *)

InvalidMoveError(bm, b, commands) ==
    [kind |-> "InvalidMoveError", self_block |-> b, self_bitmap |-> bm,
     merged |-> <<>>, bitmap |-> <<>>, block |-> NoBlock, preview |-> <<>>,
     commands |-> commands]

RECURSIVE do_commands_loop_last_drop(_, _, _, _, _)
do_commands_loop_last_drop(bm, b, pv, commands, n) ==
    IF commands[n] = "drop"
    THEN IF n = Len(commands)
         THEN place(bm, b, pv) @@ [commands |-> commands]
         ELSE do_commands_loop_last_drop(bm, b, pv, commands, n + 1)
    ELSE LET moved == do_command(b, commands[n]) IN
         IF ~check(bm, moved)
         THEN InvalidMoveError(bm, moved, commands)
         ELSE do_commands_loop_last_drop(bm, moved, pv, commands, n + 1)

(* The loop of lines 160-167 from command n on. *)
RECURSIVE do_commands_loop(_, _, _, _, _)
do_commands_loop(bm, b, pv, commands, n) ==
    IF commands[n] = "drop"
    THEN place(bm, b, pv) @@ [commands |-> commands]
    ELSE LET moved == do_command(b, commands[n]) IN
         IF ~check(bm, moved)
         THEN InvalidMoveError(bm, moved, commands)
         ELSE do_commands_loop(bm, moved, pv, commands, n + 1)

do_commands_no_reset(bm, b, pv, commands) ==
    IF ~check(bm, b)
    THEN InvalidMoveError(bm, b, commands)
    ELSE do_commands_loop(bm, b, pv, Append(commands, "drop"), 1)

do_commands_no_spawn_check(bm, b, pv, commands) ==
    do_commands_loop(bm, reset_position(b), pv, Append(commands, "drop"), 1)

do_commands(bm, b, pv, commands) ==
    LET spawned == reset_position(b) IN
    IF ~check(bm, spawned)
    THEN InvalidMoveError(bm, spawned, commands)
    ELSE do_commands_loop(bm, spawned, pv, Append(commands, "drop"), 1)

-----------------------------------------------------------------------------
(* The heuristic: Board.num_holes .. Board.evaluate *)

size(bm) == <<Len(bm), Len(bm[1])>>

num_holes_row_inverted(bm, row, st) ==
    [column_occupied |->
        [c \in 1..size(bm)[2] |->
            IF bm[row + 1][c] = 0 THEN st.column_occupied[c]
            ELSE st.column_occupied[c] + 1],
     holes |->
        st.holes + Cardinality({c \in 1..size(bm)[2] :
                       bm[row + 1][c] = 0 /\ st.column_occupied[c] = 0})]

(* Lines 207-212 for one row: a zero cell under an occupied cell of its     *)
(* column is a hole, an occupied cell marks its column.                     *)
(* st = [column_occupied, holes].                                           *)
num_holes_row(bm, row, st) ==
    [column_occupied |->
        [c \in 1..size(bm)[2] |->
            IF bm[row + 1][c] = 0 THEN st.column_occupied[c]
            ELSE st.column_occupied[c] + 1],
     holes |->
        st.holes + Cardinality({c \in 1..size(bm)[2] :
                       bm[row + 1][c] = 0 /\ st.column_occupied[c] # 0})]

(* The loop of line 206 over the rows 0 .. row - 1. *)
RECURSIVE num_holes_rows(_, _)
num_holes_rows(bm, row) ==
    IF row = 0
    THEN [column_occupied |-> [c \in 1..size(bm)[2] |-> 0], holes |-> 0]
    ELSE num_holes_row(bm, row - 1, num_holes_rows(bm, row - 1))

num_holes(bm) == num_holes_rows(bm, size(bm)[1]).holes

RECURSIVE col_height_loop(_, _, _)
col_height_loop(bm, col, row) ==
    IF row = size(bm)[1] THEN 0
    ELSE IF bm[row + 1][col + 1] # 0 THEN size(bm)[1] - row
    ELSE col_height_loop(bm, col, row + 1)

col_height(bm, col) == col_height_loop(bm, col, 0)

max(a, b) == IF a >= b THEN a ELSE b
abs(a) == IF a < 0 THEN -a ELSE a

RECURSIVE max_height_loop(_, _, _)
max_height_loop(bm, col, m_height) ==
    IF col = size(bm)[2] THEN m_height
    ELSE max_height_loop(bm, col + 1, max(m_height, col_height(bm, col)))

max_height(bm) == max_height_loop(bm, 0, 0)

RECURSIVE height_variance_loop_prev_kept(_, _, _, _)
height_variance_loop_prev_kept(bm, col, prev, variance) ==
    IF col = size(bm)[2] THEN variance
    ELSE LET cur == col_height(bm, col) IN
         height_variance_loop_prev_kept(bm, col + 1, prev, variance + abs(cur - prev))

RECURSIVE height_variance_loop(_, _, _, _)
height_variance_loop(bm, col, prev, variance) ==
    IF col = size(bm)[2] THEN variance
    ELSE LET cur == col_height(bm, col) IN
         height_variance_loop(bm, col + 1, cur, variance + abs(cur - prev))

height_variance(bm) == height_variance_loop(bm, 0, col_height(bm, 0), 0)

(* Lines 243-245 for one row: every occupied cell adds rows - row. *)
height_penalty_row(bm, row) ==
    (size(bm)[1] - row) * Cardinality({c \in 1..size(bm)[2] : bm[row + 1][c] # 0})

(* The loop of line 242 over the rows 0 .. row - 1. *)
RECURSIVE height_penalty_rows(_, _)
height_penalty_rows(bm, row) ==
    IF row = 0 THEN 0
    ELSE height_penalty_rows(bm, row - 1) + height_penalty_row(bm, row - 1)

height_penalty(bm) == height_penalty_rows(bm, size(bm)[1])

evaluate_with_penalty(bm) ==
    0 - num_holes(bm) - max_height(bm) - height_variance(bm) - height_penalty(bm)

evaluate(bm) == 0 - num_holes(bm) - max_height(bm) - height_variance(bm)

-----------------------------------------------------------------------------
(* The inputs: what Board.construct_from_json can build *)

Tokens == {"left", "right", "up", "down", "rotate", "drop"}

Single == Block(Point(0, 0), <<Point(0, 0)>>)
Domino == Block(Point(0, 11), <<Point(0, 0), Point(1, 0)>>)
Tee == Block(Point(1, 5), <<Point(0, -1), Point(0, 0), Point(0, 1), Point(1, 0)>>)

Pieces == <<Single, Domino, Tee>>

(* A grid whose bottom h rows are full but for column gap, with t occupied    *)
(* cells at the top of column 5.                                              *)
Grid(h, gap, t) ==
    [r \in 1..rows |-> [c \in 1..cols |->
        IF (r > rows - h /\ c - 1 # gap) \/ (r <= t /\ c - 1 = 5) THEN 1 ELSE 0]]

Grids == {Grid(0, 11, 0), Grid(1, 11, 0), Grid(0, 11, 1), Grid(2, 11, 1)}

PreviewOf(n) == [k \in 1..n |-> Pieces[((k - 1) % Len(Pieces)) + 1]]

Previews == {PreviewOf(n) : n \in 0..MaxPreview}

CommandLists ==
    {<<>>} \cup {<<t>> : t \in Tokens}
           \cup {<<"left", "left">>, <<"drop", "left">>, <<"down", "rotate">>,
                 <<"right", "down", "down">>}

NoRet == [kind |-> "init", merged |-> <<>>, bitmap |-> <<>>, block |-> NoBlock,
          preview |-> <<>>, commands |-> <<>>]

BoolRet(ok) == [NoRet EXCEPT !.kind = IF ok THEN "True" ELSE "False"]

BoardRet(r) == [kind |-> r.kind, merged |-> r.merged, bitmap |-> r.bitmap,
                block |-> r.block, preview |-> r.preview, commands |-> r.commands]

SearchIdle ==
    /\ pc = "off" /\ shift = 0 /\ variant = 0 /\ moves = <<>> /\ choices = <<>>
    /\ executed = <<>> /\ nexec = 0 /\ todo = <<>>

BoardIdle ==
    /\ preview = <<>> /\ arg = <<>> /\ ret = NoRet

-----------------------------------------------------------------------------
(* Spec: the methods of Block and Board called on one board, in any order *)

Init ==
    /\ bitmap \in Grids
    /\ block \in {Pieces[n] : n \in 1..Len(Pieces)}
    /\ preview \in Previews
    /\ op = "init" /\ arg = <<>> /\ ret = NoRet /\ nops = 0
    /\ SearchIdle /\ before = <<>>

Checked(name, r) ==
    /\ nops < MaxOps
    /\ block' = r.block
    /\ ret' = BoolRet(r.ok)
    /\ op' = name /\ arg' = <<>> /\ nops' = nops + 1
    /\ UNCHANGED <<bitmap, preview>>
    /\ UNCHANGED <<searchVars, before>>

CheckedLeft == Checked("checked_left", checked_left(bitmap, block))
CheckedRight == Checked("checked_right", checked_right(bitmap, block))
CheckedDown == Checked("checked_down", checked_down(bitmap, block))
CheckedUp == Checked("checked_up", checked_up(bitmap, block))
CheckedRotate == Checked("checked_rotate", checked_rotate(bitmap, block))

DoCommands ==
    /\ nops < MaxOps
    /\ \E commands \in CommandLists :
        \E r \in {do_commands(bitmap, block, preview, commands)} :
        /\ block' = r.self_block
        /\ bitmap' = r.self_bitmap
        /\ ret' = BoardRet(r)
        /\ arg' = commands
    /\ op' = "do_commands" /\ nops' = nops + 1
    /\ UNCHANGED preview
    /\ UNCHANGED <<searchVars, before>>

Place ==
    /\ nops < MaxOps
    /\ \E r \in {place(bitmap, block, preview)} :
        /\ block' = r.self_block
        /\ bitmap' = r.self_bitmap
        /\ ret' = BoardRet(r @@ [commands |-> <<>>])
    /\ op' = "place" /\ arg' = <<>> /\ nops' = nops + 1
    /\ UNCHANGED preview
    /\ UNCHANGED <<searchVars, before>>

(* The caller goes on with the board that place returned. *)
NewBoard ==
    /\ nops < MaxOps
    /\ ret.kind = "Board"
    /\ bitmap' = ret.bitmap
    /\ block' = ret.block
    /\ preview' = ret.preview
    /\ ret' = NoRet
    /\ op' = "new_board" /\ arg' = <<>> /\ nops' = nops + 1
    /\ UNCHANGED <<searchVars, before>>

Next ==
    \/ CheckedLeft
    \/ CheckedRight
    \/ CheckedDown
    \/ CheckedUp
    \/ CheckedRotate
    \/ DoCommands
    \/ Place
    \/ NewBoard

Spec == Init /\ [][Next]_vars

-----------------------------------------------------------------------------
(* SpecBlock: the methods of Block called on the piece of a board, in any   *)
(* order.  The unchecked ones look at no board and return None.             *)

Unchecked(name, commands, r) ==
    /\ nops < MaxCalls
    /\ block' = r.block
    /\ ret' = [NoRet EXCEPT !.kind = r.kind]
    /\ op' = name /\ arg' = commands /\ nops' = nops + 1
    /\ UNCHANGED <<bitmap, preview>>
    /\ UNCHANGED <<searchVars, before>>

BlockLeft == Unchecked("left", <<>>, [kind |-> "None", block |-> left(block)])
BlockRight == Unchecked("right", <<>>, [kind |-> "None", block |-> right(block)])
BlockUp == Unchecked("up", <<>>, [kind |-> "None", block |-> up(block)])
BlockDown == Unchecked("down", <<>>, [kind |-> "None", block |-> down(block)])
BlockRotate == Unchecked("rotate", <<>>, [kind |-> "None", block |-> rotate(block)])
BlockUnrotate ==
    Unchecked("unrotate", <<>>, [kind |-> "None", block |-> unrotate(block)])
ResetPosition ==
    Unchecked("reset_position", <<>>,
              [kind |-> "None", block |-> reset_position(block)])

(* Block.do_command(command): one command, `drop` included. *)
BlockDoCommand ==
    \E command \in Tokens :
        Unchecked("do_command", <<command>>, block_do_commands(block, <<command>>))

(* The lists handed to Block.do_commands. *)
BlockCommandLists == CommandLists \cup {<<"down", "down">>, <<"rotate", "up", "drop">>}

(* Block.do_commands(commands) *)
BlockDoCommands ==
    \E commands \in BlockCommandLists :
        Unchecked("Block.do_commands", commands, block_do_commands(block, commands))

BlockCheckedLeft == nops < MaxCalls /\ CheckedLeft
BlockCheckedRight == nops < MaxCalls /\ CheckedRight
BlockCheckedDown == nops < MaxCalls /\ CheckedDown
BlockCheckedUp == nops < MaxCalls /\ CheckedUp
BlockCheckedRotate == nops < MaxCalls /\ CheckedRotate

NextBlock ==
    \/ BlockLeft
    \/ BlockRight
    \/ BlockUp
    \/ BlockDown
    \/ BlockRotate
    \/ BlockUnrotate
    \/ ResetPosition
    \/ BlockDoCommand
    \/ BlockDoCommands
    \/ BlockCheckedLeft
    \/ BlockCheckedRight
    \/ BlockCheckedDown
    \/ BlockCheckedUp
    \/ BlockCheckedRotate

SpecBlock == Init /\ [][NextBlock]_vars

-----------------------------------------------------------------------------
(* SpecRot: Block.rotate called four times on a piece in any pose *)

Poses(b) ==
    {[b EXCEPT !.translation = Point(ti, tj), !.rotation = r] :
        ti \in -MaxMove..MaxMove, tj \in -MaxMove..MaxMove, r \in -MaxSpin..MaxSpin}

InitRot ==
    /\ block \in UNION {Poses(Pieces[n]) : n \in 1..Len(Pieces)}
    /\ before = squares(block)
    /\ bitmap = <<>> /\ op = "init" /\ nops = 0
    /\ BoardIdle /\ SearchIdle

Rotate ==
    /\ nops < 4
    /\ block' = rotate(block)
    /\ op' = "rotate" /\ nops' = nops + 1
    /\ UNCHANGED <<bitmap, preview, arg, ret, before>>
    /\ UNCHANGED searchVars

NextRot == Rotate

SpecRot == InitRot /\ [][NextRot]_vars

-----------------------------------------------------------------------------
(* SpecRows: Board.remove_rows applied once and again to any small 0/1 grid *)

SmallGrids ==
    UNION {[1..r -> [1..c -> {0, 1}]] : r \in 1..MaxR, c \in 1..MaxC}

InitRows ==
    /\ bitmap \in SmallGrids
    /\ before = bitmap
    /\ block = NoBlock /\ op = "init" /\ nops = 0
    /\ BoardIdle /\ SearchIdle

RemoveRows ==
    /\ nops < 2
    /\ before' = bitmap
    /\ bitmap' = remove_rows(bitmap)
    /\ op' = "remove_rows" /\ nops' = nops + 1
    /\ UNCHANGED <<block, preview, arg, ret>>
    /\ UNCHANGED searchVars

NextRows == RemoveRows

SpecRows == InitRows /\ [][NextRows]_vars

-----------------------------------------------------------------------------
(* SpecSearch: the placement search of the __main__ section.  The search's  *)
(* `block` is board.block itself, so every pose that do_commands and place  *)
(* leave behind is the pose the next probing step starts from.              *)

(* Line 287: choices[cur] = moves[:] *)
choices_set_keep_first(ch, cur, list) ==
    [k \in DOMAIN ch \cup {cur} |-> IF k \in DOMAIN ch THEN ch[k] ELSE list]

choices_set(ch, cur, list) ==
    [k \in DOMAIN ch \cup {cur} |-> IF k = cur THEN list ELSE ch[k]]

(* Line 291: choices[max(choices)] *)
choices_best_lowest(ch) ==
    ch[CHOOSE k \in DOMAIN ch : \A m \in DOMAIN ch : k <= m]

choices_best(ch) ==
    ch[CHOOSE k \in DOMAIN ch : \A m \in DOMAIN ch : k >= m]

(* The boards the search is started on: those of Grids, and one on which    *)
(* the spawn pose of the Tee is illegal.                                   *)
SearchGrids == Grids \cup {Grid(0, 11, 2)}

(* Line 285: do_commands is handed the copy moves[:], so the drop it        *)
(* appends goes to the copy (after) and moves keeps its value (list).       *)
moves_copy_aliased(list, after) == after

moves_copy(list, after) == list

(* Line 286: what lines 285-286 raise when do_commands ended with kind.     *)
raised(kind) == IF kind = "None" THEN "AttributeError" ELSE kind

(* Line 288: the except clause. *)
caught_any(exc) == TRUE

caught(exc) == exc = "InvalidMoveError"

(* The pieces the search is started with: those of Pieces, and a domino    *)
(* spawned in the middle of the top row.                                   *)
DominoMid == Block(Point(0, 5), <<Point(0, 0), Point(1, 0)>>)

SearchPieces == {Pieces[n] : n \in 1..Len(Pieces)} \cup {DominoMid}

InitSearch ==
    /\ bitmap \in SearchGrids
    /\ block \in SearchPieces
    /\ preview \in Previews
    /\ op = "init" /\ arg = <<>> /\ ret = NoRet /\ nops = 0
    /\ pc = "for" /\ shift = 0 /\ variant = 0 /\ moves = <<>> /\ choices = <<>>
    /\ executed = <<>> /\ nexec = 0 /\ todo = <<>>
    /\ before = <<>>

ForShift_keep_moves ==
    /\ pc = "for"
    /\ IF shift < Shifts
       THEN /\ pc' = "left"
            /\ UNCHANGED moves
       ELSE /\ pc' = "emit"
            /\ UNCHANGED moves
    /\ UNCHANGED <<bitmap, block, preview, op, arg, ret, nops>>
    /\ UNCHANGED <<shift, variant, choices, executed, nexec, todo, before>>

(* Lines 272-273: the head of the outer loop. *)
ForShift ==
    /\ pc = "for"
    /\ IF shift < Shifts
       THEN /\ moves' = <<>>
            /\ pc' = "left"
       ELSE /\ pc' = "emit"
            /\ UNCHANGED moves
    /\ UNCHANGED <<bitmap, block, preview, op, arg, ret, nops>>
    /\ UNCHANGED <<shift, variant, choices, executed, nexec, todo, before>>

(* Lines 274-275: one test of the left-probing loop.  A piece with a cell   *)
(* is stopped by the wall after at most cols tokens (cols of them when a    *)
(* failed execution left it one column beyond the right wall); the loop     *)
(* that has appended MaxProbe tokens is followed no further.                *)
ProbeLeft ==
    /\ pc = "left"
    /\ Len(moves) < MaxProbe
    /\ \E r \in {checked_left(bitmap, block)} :
        /\ block' = r.block
        /\ ret' = BoolRet(r.ok)
        /\ IF r.ok
           THEN /\ moves' = Append(moves, "left")
                /\ pc' = "left"
           ELSE /\ pc' = "right"
                /\ UNCHANGED moves
    /\ op' = "checked_left"
    /\ UNCHANGED <<bitmap, preview, arg, nops>>
    /\ UNCHANGED <<shift, variant, choices, executed, nexec, todo, before>>

(* Lines 276-277: `right` is appended to the list only. *)
AppendRights ==
    /\ pc = "right"
    /\ moves' = moves \o [n \in 1..shift |-> "right"]
    /\ pc' = "down"
    /\ UNCHANGED <<bitmap, block, preview, op, arg, ret, nops>>
    /\ UNCHANGED <<shift, variant, choices, executed, nexec, todo, before>>

(* Lines 278-279: one test of the down-probing loop. *)
ProbeDown ==
    /\ pc = "down"
    /\ \E r \in {checked_down(bitmap, block)} :
        /\ block' = r.block
        /\ ret' = BoolRet(r.ok)
        /\ IF r.ok
           THEN /\ moves' = Append(moves, "down")
                /\ pc' = "down"
                /\ UNCHANGED variant
           ELSE /\ pc' = "variants"
                /\ variant' = 0
                /\ UNCHANGED moves
    /\ op' = "checked_down"
    /\ UNCHANGED <<bitmap, preview, arg, nops>>
    /\ UNCHANGED <<shift, choices, executed, nexec, todo, before>>

(* Lines 281-289: one round of the inner loop.  do_commands is handed a     *)
(* copy of moves; a returned None fails at new_board.evaluate() with an     *)
(* AttributeError, which nothing catches.                                   *)
TryVariant ==
    /\ pc = "variants"
    /\ variant < Variants
    /\ \E list \in {Append(moves, "rotate")} :
       \E r \in {do_commands(bitmap, reset_position(block), preview, list)} :
        /\ moves' = moves_copy(list, r.commands)
        /\ arg' = list
        /\ block' = r.self_block
        /\ bitmap' = r.self_bitmap
        /\ nexec' = nexec + 1
        /\ CASE r.kind = "Board" ->
                  \E cur \in {evaluate(r.bitmap)} :
                    /\ choices' = choices_set(choices, cur, moves')
                    /\ executed' = Append(executed, [score |-> cur, moves |-> moves'])
                    /\ ret' = [NoRet EXCEPT !.kind = "Board", !.commands = r.commands]
                    /\ variant' = variant + 1
                    /\ pc' = "variants"
             [] r.kind # "Board" /\ caught(raised(r.kind)) ->
                    /\ ret' = [NoRet EXCEPT !.kind = raised(r.kind),
                                            !.commands = r.commands]
                    /\ variant' = variant + 1
                    /\ pc' = "variants"
                    /\ UNCHANGED <<choices, executed>>
             [] OTHER ->
                    /\ ret' = [NoRet EXCEPT !.kind = raised(r.kind),
                                            !.commands = r.commands]
                    /\ pc' = "crashed"
                    /\ UNCHANGED <<choices, executed, variant>>
    /\ op' = "do_commands"
    /\ UNCHANGED <<preview, nops, shift, todo, before>>

(* The inner loop is over: on to the next shift. *)
NextShift ==
    /\ pc = "variants"
    /\ variant = Variants
    /\ shift' = shift + 1
    /\ pc' = "for"
    /\ UNCHANGED <<bitmap, block, preview, op, arg, ret, nops>>
    /\ UNCHANGED <<variant, moves, choices, executed, nexec, todo, before>>

(* Lines 291-292: max() of an empty dict raises ValueError. *)
Emit ==
    /\ pc = "emit"
    /\ IF DOMAIN choices = {}
       THEN /\ ret' = [NoRet EXCEPT !.kind = "ValueError"]
            /\ pc' = "crashed"
            /\ UNCHANGED todo
       ELSE /\ todo' = choices_best(choices)
            /\ pc' = "done"
            /\ UNCHANGED ret
    /\ op' = "print"
    /\ UNCHANGED <<bitmap, block, preview, arg, nops>>
    /\ UNCHANGED <<shift, variant, moves, choices, executed, nexec, before>>

NextSearch ==
    \/ ForShift
    \/ ProbeLeft
    \/ AppendRights
    \/ ProbeDown
    \/ TryVariant
    \/ NextShift
    \/ Emit

SpecSearch == InitSearch /\ [][NextSearch]_vars

(* The search is a sequential program: it takes its next step whenever it   *)
(* has one.  TryVariant is enabled exactly when its guard holds (do_commands *)
(* always ends, and the step changes nexec), so its weak fairness is written *)
(* with the guard in the place of ENABLED.                                   *)
TryVariantEnabled == pc = "variants" /\ variant < Variants

(* Line 135: a block of the state JSON whose list of offsets is empty. *)
NoCells == Block(Point(0, 0), <<>>)

InitSearchAny ==
    /\ bitmap \in SearchGrids
    /\ block \in SearchPieces \cup {NoCells}
    /\ preview \in Previews
    /\ op = "init" /\ arg = <<>> /\ ret = NoRet /\ nops = 0
    /\ pc = "for" /\ shift = 0 /\ variant = 0 /\ moves = <<>> /\ choices = <<>>
    /\ executed = <<>> /\ nexec = 0 /\ todo = <<>>
    /\ before = <<>>

SpecSearchFair ==
    /\ InitSearchAny /\ [][NextSearch]_vars
    /\ WF_vars(ForShift) /\ WF_vars(ProbeLeft) /\ WF_vars(AppendRights)
    /\ WF_vars(ProbeDown) /\ WF_vars(NextShift) /\ WF_vars(Emit)
    /\ ([]<>(~TryVariantEnabled) \/ []<><<TryVariant>>_vars)

-----------------------------------------------------------------------------
(* SpecExec: one call of Board.do_commands, with any list of at most MaxLen *)
(* tokens, or of Board.place, on a board with up to MaxQueue preview pieces *)

ExecLists == UNION {[1..n -> Tokens] : n \in 0..MaxLen}

ExecPreviews == {PreviewOf(n) : n \in 0..MaxQueue}

InitExec ==
    /\ bitmap \in SearchGrids
    /\ block \in SearchPieces
    /\ preview \in ExecPreviews
    /\ op = "init" /\ arg = <<>> /\ ret = NoRet /\ nops = 0
    /\ SearchIdle /\ before = <<>>

ExecDoCommands ==
    /\ nops = 0
    /\ \E commands \in ExecLists :
        \E r \in {do_commands(bitmap, block, preview, commands)} :
        /\ block' = r.self_block
        /\ bitmap' = r.self_bitmap
        /\ ret' = BoardRet(r)
        /\ arg' = commands
    /\ op' = "do_commands" /\ nops' = nops + 1
    /\ UNCHANGED preview
    /\ UNCHANGED <<searchVars, before>>

ExecPlace == nops = 0 /\ Place

NextExec ==
    \/ ExecDoCommands
    \/ ExecPlace

SpecExec == InitExec /\ [][NextExec]_vars

-----------------------------------------------------------------------------
(* SpecScenario: the search started on the empty grid with a one-cell piece *)
(* spawned on any cell, and at least one preview piece                      *)

OneCell(i, j) == Block(Point(i, j), <<Point(0, 0)>>)

InitScenario ==
    /\ bitmap = Grid(0, 11, 0)
    /\ block \in {OneCell(i, j) : i \in 0..(rows - 1), j \in 0..(cols - 1)}
    /\ preview \in {PreviewOf(n) : n \in 1..MaxPreview}
    /\ op = "init" /\ arg = <<>> /\ ret = NoRet /\ nops = 0
    /\ pc = "for" /\ shift = 0 /\ variant = 0 /\ moves = <<>> /\ choices = <<>>
    /\ executed = <<>> /\ nexec = 0 /\ todo = <<>>
    /\ before = <<>>

SpecScenario == InitScenario /\ [][NextSearch]_vars

-----------------------------------------------------------------------------
(* SpecScore: the heuristic applied to any small 0/1 grid and to the grid   *)
(* of the inline self-test                                                  *)

test_board == <<<<1, 1, 1>>, <<1, 0, 1>>, <<1, 1, 1>>>>

ScoreGrids == SmallGrids \cup {test_board}

InitScore ==
    /\ bitmap \in ScoreGrids
    /\ before = <<>>
    /\ block = NoBlock /\ op = "init" /\ nops = 0
    /\ BoardIdle /\ SearchIdle

(* Lines 253-256 and the call of evaluate: before holds what was returned. *)
Evaluate ==
    /\ nops < 1
    /\ before' = [num_holes |-> num_holes(bitmap),
                  max_height |-> max_height(bitmap),
                  height_variance |-> height_variance(bitmap),
                  height_penalty |-> height_penalty(bitmap),
                  evaluate |-> evaluate(bitmap)]
    /\ op' = "evaluate" /\ nops' = nops + 1
    /\ UNCHANGED <<bitmap, block, preview, arg, ret>>
    /\ UNCHANGED searchVars

NextScore == Evaluate

SpecScore == InitScore /\ [][NextScore]_vars

-----------------------------------------------------------------------------
(* Vocabulary of the properties *)

(* The block b moved by di rows, dj columns and dr quarter turns. *)
Moved(b, di, dj, dr) ==
    [b EXCEPT !.translation = Point(b.translation.i + di, b.translation.j + dj),
              !.rotation = b.rotation + dr]

Count(commands, token, k) ==
    Cardinality({n \in 1..k : commands[n] = token})

(* The pose a piece has after the first k tokens of a command list, each      *)
(* applied as commanded from the spawn pose.                                  *)
PoseAfter(b, commands, k) ==
    [b EXCEPT !.translation =
                 Point(Count(commands, "down", k) - Count(commands, "up", k),
                       Count(commands, "right", k) - Count(commands, "left", k)),
              !.rotation = Count(commands, "rotate", k)]

(* The number of tokens before the first drop. *)
BeforeDrop(commands) ==
    IF \E n \in 1..Len(commands) : commands[n] = "drop"
    THEN (CHOOSE n \in 1..Len(commands) :
            /\ commands[n] = "drop"
            /\ \A m \in 1..(n - 1) : commands[m] # "drop") - 1
    ELSE Len(commands)

IllegalPrefixes(bm, b, commands) ==
    {k \in 0..BeforeDrop(commands) : ~check(bm, PoseAfter(b, commands, k))}

Least(S) == CHOOSE k \in S : \A m \in S : k <= m

CheckedOps ==
    {"checked_left", "checked_right", "checked_down", "checked_up", "checked_rotate"}

-----------------------------------------------------------------------------
(* C1: do_commands is strict.  Whenever the spawn pose is illegal, or the    *)
(* pose after some token before the first drop is illegal, the call raises   *)
(* InvalidMoveError and returns no board, and the piece is left at the first *)
(* illegal pose exactly as commanded: no move is clamped or reverted.        *)
StrictExecution ==
    (op = "do_commands" /\ IllegalPrefixes(bitmap, block, arg) # {}) =>
        /\ ret.kind = "InvalidMoveError"
        /\ ret.bitmap = <<>> /\ ret.block = NoBlock
        /\ block = PoseAfter(block, arg, Least(IllegalPrefixes(bitmap, block, arg)))

(* An execution has failed at its second or a later token: the spawn pose   *)
(* and the poses before that token were legal, and the piece is left, off    *)
(* the board or on an occupied cell, where that token put it.                *)
StrictExecutionWitness ==
    /\ op = "do_commands" /\ ret.kind = "InvalidMoveError"
    /\ IllegalPrefixes(bitmap, block, arg) # {}
    /\ Least(IllegalPrefixes(bitmap, block, arg)) >= 2
    /\ ~check(bitmap, block)
    /\ block # reset_position(block)

(* C2: place on a board whose preview queue is empty ends in a               *)
(* PreviewExhausted error, not in a returned value.                          *)
PreviewExhaustedIsAnError ==
    (op = "place" /\ Len(preview) = 0 /\ check(bitmap, block)) =>
        ret.kind = "PreviewExhausted"

CheckedStep(name, di, dj, dr) ==
    op' = name =>
        /\ ret'.kind \in {"True", "False"}
        /\ ret'.kind = "True" =>
              (check(bitmap, block') /\ block' = Moved(block, di, dj, dr))
        /\ ret'.kind = "False" => block' = block

(* C4: guard and revert.  A checked_* call that returns True leaves the      *)
(* piece legal and moved by exactly its primitive; one that returns False    *)
(* leaves translation and rotation as they were.                             *)
GuardAndRevert ==
    [][/\ CheckedStep("checked_left", 0, -1, 0)
       /\ CheckedStep("checked_right", 0, 1, 0)
       /\ CheckedStep("checked_up", -1, 0, 0)
       /\ CheckedStep("checked_down", 1, 0, 0)
       /\ CheckedStep("checked_rotate", 0, 0, 1)]_vars

(* A rotation was refused on a legal piece, which is back where it was.       *)
GuardAndRevertWitness ==
    /\ op = "checked_rotate" /\ ret.kind = "False"
    /\ check(bitmap, block) /\ ~check(bitmap, Moved(block, 0, 0, 1))

Occupies(b, r, c) ==
    \E n \in 1..Len(b.offsets) : squares(b)[n] = Point(r, c)

(* C5: hard drop.  place called with the piece legal leaves it straight      *)
(* below, column and rotation unchanged, on the first row from which one     *)
(* more down is illegal; that pose is legal and the merged grid is the old   *)
(* grid with exactly the piece's cells, all free and in bounds, set to 1.    *)
HardDrop ==
    [][(op' = "place" /\ check(bitmap, block)) =>
         LET d == block'.translation.i - block.translation.i IN
         /\ d >= 0
         /\ block' = Moved(block, d, 0, 0)
         /\ \A e \in 0..d : check(bitmap, Moved(block, e, 0, 0))
         /\ ~check(bitmap, Moved(block, d + 1, 0, 0))
         /\ ret'.kind \in {"Board", "None"}
         /\ \A n \in 1..Len(block'.offsets) :
               LET square == squares(block')[n] IN
               /\ square.i \in 0..(rows - 1) /\ square.j \in 0..(cols - 1)
               /\ bitmap[square.i + 1][square.j + 1] = 0
         /\ ret'.merged = [r \in 1..rows |-> [c \in 1..cols |->
                             IF Occupies(block', r - 1, c - 1) THEN 1
                             ELSE bitmap[r][c]]]]_vars

(* A piece was dropped from above and came to rest on occupied cells.         *)
HardDropWitness ==
    /\ op = "place" /\ ret.kind = "Board"
    /\ check(bitmap, block) /\ block.translation.i > 0
    /\ \A n \in 1..Len(block.offsets) : squares(block)[n].i < rows - 1

(* C8: no method changes the grid or the preview queue of the board it is    *)
(* called on; the merged and cleared grid is in the returned board only.     *)
BoardUntouched ==
    [][op' \in CheckedOps \cup {"do_commands", "place"} =>
         /\ bitmap' = bitmap
         /\ preview' = preview
         /\ ret'.kind = "Board" => ret'.bitmap = remove_rows(ret'.merged)]_vars

(* A commit returned a board whose grid differs from the grid of the board    *)
(* it was called on.                                                          *)
BoardUntouchedWitness ==
    /\ op \in {"do_commands", "place"} /\ ret.kind = "Board"
    /\ ret.bitmap # bitmap /\ ret.merged # bitmap

(* C9: a successful commit on a board with preview queue p1, p2, .., pn      *)
(* returns a board whose block is p1 and whose preview queue is p2, .., pn.  *)
PreviewAdvances ==
    [][(op' \in {"do_commands", "place"} /\ ret'.kind = "Board") =>
         /\ Len(preview) >= 1
         /\ ret'.block = preview[1]
         /\ Len(ret'.preview) = Len(preview) - 1
         /\ \A k \in 1..Len(ret'.preview) : ret'.preview[k] = preview[k + 1]]_vars

(* A commit on a queue of three pieces returned the first as the block and *)
(* the other two, which differ, in their order.                              *)
PreviewAdvancesWitness ==
    /\ op \in {"do_commands", "place"} /\ ret.kind = "Board"
    /\ Len(preview) = 3 /\ preview[2] # preview[3]
    /\ ret.block = preview[1] /\ ret.preview = <<preview[2], preview[3]>>

(* C3: rotation has period 4.  After four calls of rotate the piece          *)
(* occupies the squares it occupied before them, whatever its offsets,       *)
(* translation and rotation counter.                                         *)
RotationPeriodFour ==
    (op = "rotate" /\ nops = 4) => squares(block) = before

IsFull(row) == \A c \in 1..Len(row) : row[c] # 0

FullRows(g, p) == {q \in 1..p : IsFull(g[q])}

(* C10: remove_rows returns a grid of the same size made of one all-zero     *)
(* row per full row of its argument, on top, followed by the argument's      *)
(* other rows in their order; it has no full row, and remove_rows maps it    *)
(* to itself.                                                                *)
RowRemoval ==
    op = "remove_rows" =>
        LET k == Cardinality(FullRows(before, Len(before))) IN
        /\ Len(bitmap) = Len(before)
        /\ \A r \in 1..Len(bitmap) : Len(bitmap[r]) = Len(before[1])
        /\ \A r \in 1..k : \A c \in 1..Len(bitmap[r]) : bitmap[r][c] = 0
        /\ \A p \in 1..Len(before) :
              ~IsFull(before[p]) =>
                 bitmap[k + p - Cardinality(FullRows(before, p))] = before[p]
        /\ FullRows(bitmap, Len(bitmap)) = {}
        /\ remove_rows(bitmap) = bitmap
        /\ nops = 2 => bitmap = before

(* A grid with a full row above a row that is not full has been cleared.      *)
RowRemovalWitness ==
    /\ op = "remove_rows" /\ nops = 1
    /\ Len(before) = 3
    /\ IsFull(before[1]) /\ ~IsFull(before[2]) /\ IsFull(before[3])
    /\ \E c \in 1..Len(before[2]) : before[2][c] = 1
    /\ bitmap[3] = before[2]

BestScore == CHOOSE v \in {executed[n].score : n \in 1..Len(executed)} :
                \A n \in 1..Len(executed) : executed[n].score <= v

LastBest == CHOOSE n \in 1..Len(executed) :
                /\ executed[n].score = BestScore
                /\ \A m \in (n + 1)..Len(executed) : executed[m].score # BestScore

(* C6: the printed move list is the one recorded for the highest score of    *)
(* all successful executions, and of several executions with that score it   *)
(* is the list of the one executed last.                                     *)
SelectionRule ==
    pc = "done" =>
        /\ nexec = Shifts * Variants
        /\ Len(executed) >= 1
        /\ todo = executed[LastBest].moves

(* Two executions with different move lists reached the highest score, and    *)
(* the search has printed a list.                                             *)
SelectionRuleWitness ==
    /\ pc = "done"
    /\ \E m \in 1..Len(executed) :
          /\ m < LastBest
          /\ executed[m].score = BestScore
          /\ executed[m].moves # executed[LastBest].moves
    /\ \E m \in 1..Len(executed) : executed[m].score < BestScore

SomePoses(b) == {b, reset_position(b), Moved(b, -2, 3, 1)}

Sound(list, score) ==
    /\ \A n \in 1..Len(list) : list[n] # "drop"
    /\ IllegalPrefixes(bitmap, block, list) = {}
    /\ \A b \in SomePoses(block) :
          \E r \in {do_commands(bitmap, b, preview, list)} :
              r.kind = "Board" /\ evaluate(r.bitmap) = score

(* C7: every recorded move list, executed by do_commands on the board from   *)
(* whatever pose the shared piece is in, keeps the piece legal after every   *)
(* token, returns a board, and that board's score is the score the list is   *)
(* recorded under; so does the printed list.                                 *)
RecordedAreSound ==
    /\ (pc = "variants" /\ ret.kind = "Board") =>
          /\ executed[Len(executed)].score \in DOMAIN choices
          /\ choices[executed[Len(executed)].score] = executed[Len(executed)].moves
          /\ Sound(executed[Len(executed)].moves, executed[Len(executed)].score)
    /\ pc \in {"emit", "done"} =>
          \A score \in DOMAIN choices : Sound(choices[score], score)
    /\ pc = "done" =>
          \E score \in DOMAIN choices : todo = choices[score]

(* The search has printed a list recorded while the shared piece was left     *)
(* off its spawn pose by the executions before.                               *)
RecordedAreSoundWitness ==
    /\ pc = "done"
    /\ Len(todo) > Variants
    /\ block # reset_position(block)
    /\ Cardinality(DOMAIN choices) >= 3

Terminated == pc \in {"done", "crashed"}

(* C11: when every one of the 36 executions of the search has failed with    *)
(* InvalidMoveError, the search raises NoLegalPlacement and prints no move   *)
(* list.                                                                     *)
ExhaustionIsNoLegalPlacement ==
    (Terminated /\ nexec = Shifts * Variants /\ executed = <<>>) =>
        /\ pc = "crashed"
        /\ ret.kind = "NoLegalPlacement"
        /\ todo = <<>>

(* C12: on every board with a non-empty preview queue, whatever its grid    *)
(* and its piece, the search comes to its end, and has then called           *)
(* do_commands exactly 36 times; it never calls it more often.               *)
SearchTerminates ==
    /\ [](nexec <= Shifts * Variants)
    /\ [](Terminated => (nexec = Shifts * Variants \/ Len(preview) = 0))
    /\ (Len(preview) > 0) ~> (Terminated /\ nexec = Shifts * Variants)

(* C13: an execution that fails with InvalidMoveError is discarded and the   *)
(* next rotation variant is tried; any other failure ends the search, which  *)
(* then takes no further step.  On a board with an empty preview queue no    *)
(* execution returns a board, the first commit ends the search, and no move  *)
(* list is ever printed.                                                     *)
OnlyInvalidMoveAbsorbed ==
    /\ [][(nexec' # nexec /\ ret'.kind = "InvalidMoveError") =>
             (pc' = "variants" /\ variant' = variant + 1 /\ choices' = choices)]_vars
    /\ [][(nexec' # nexec /\ ret'.kind \notin {"InvalidMoveError", "Board"}) =>
             pc' = "crashed"]_vars
    /\ [][pc = "crashed" => (pc' = "crashed" /\ todo' = todo /\ nexec' = nexec)]_vars
    /\ [](Len(preview) = 0 =>
             /\ pc # "done" /\ todo = <<>> /\ executed = <<>>
             /\ (op = "do_commands" /\ ret.kind # "InvalidMoveError") =>
                    (ret.kind = "AttributeError" /\ pc = "crashed"))

(* On a board with an empty preview queue the search has discarded failed     *)
(* executions and was then ended by its first commit.                         *)
OnlyInvalidMoveAbsorbedWitness ==
    /\ Len(preview) = 0
    /\ pc = "crashed" /\ ret.kind = "AttributeError"
    /\ nexec > 1 /\ todo = <<>>

(* C14: the first drop ends the execution.  A do_commands call whose spawn   *)
(* pose and poses after the tokens before the first drop are legal commits   *)
(* the piece at the pose after exactly those tokens, whatever tokens follow  *)
(* the drop, legal or not; a list without drop is committed at the pose      *)
(* after all its tokens, as if it ended with drop.                           *)
DropEndsExecution ==
    [][(op' = "do_commands" /\ IllegalPrefixes(bitmap, block, arg') = {}) =>
         LET pose == PoseAfter(block, arg', BeforeDrop(arg')) IN
         /\ ret'.kind \in {"Board", "None"}
         /\ ret'.commands = Append(arg', "drop")
         /\ block'.translation.j = pose.translation.j
         /\ block'.rotation = pose.rotation
         /\ block'.translation.i >= pose.translation.i
         /\ check(bitmap, block') /\ ~check(bitmap, down(block'))
         /\ \A n \in 1..Len(block'.offsets) :
               ret'.merged[squares(block')[n].i + 1][squares(block')[n].j + 1] = 1]_vars

(* The list drop, left was executed with success on a piece whose spawn pose  *)
(* has no legal left.                                                         *)
DropEndsExecutionWitness ==
    /\ op = "do_commands" /\ arg = <<"drop", "left">>
    /\ ret.kind = "Board"
    /\ ~check(bitmap, left(reset_position(block)))

Clean(list) == \A n \in 1..Len(list) : list[n] \in MoveTokens

(* C15: the search's own list, every recorded list and the printed list      *)
(* hold move tokens only and never drop, although every execution that got   *)
(* past the spawn check was handed a list to which do_commands appended      *)
(* drop.                                                                     *)
OutputAlphabet ==
    /\ Clean(moves) /\ Clean(todo)
    /\ \A score \in DOMAIN choices : Clean(choices[score])
    /\ \A n \in 1..Len(executed) : Clean(executed[n].moves)
    /\ (op = "do_commands" /\ ret.kind \in {"Board", "AttributeError"}) =>
          (Clean(arg) /\ ret.commands = Append(arg, "drop"))
    /\ (op = "do_commands" /\ ret.kind = "InvalidMoveError") =>
          (Clean(arg) /\ ret.commands \in {arg, Append(arg, "drop")})

(* The search has printed a list after executions to whose lists drop was     *)
(* appended; the last of them was recorded.                                   *)
OutputAlphabetWitness ==
    /\ pc = "done" /\ Len(todo) > 0
    /\ op = "print" /\ ret.kind = "Board"
    /\ ret.commands = Append(moves, "drop")
    /\ \E score \in DOMAIN choices : choices[score] = moves

(* C16: on the empty grid with a one-cell piece spawned on any cell and a    *)
(* preview piece, the search does not fail; the list it prints is not empty, *)
(* and do_commands executes it on the board with success and returns a board *)
(* without holes.                                                            *)
EmptyGridScenario ==
    /\ pc # "crashed"
    /\ pc = "done" =>
          /\ Len(todo) > 0
          /\ \E r \in {do_commands(bitmap, block, preview, todo)} :
                r.kind = "Board" /\ num_holes(r.bitmap) = 0

(* The search has printed a list for a piece spawned in the last column,      *)
(* below the top row, where the executions of the later shifts failed.        *)
EmptyGridScenarioWitness ==
    /\ pc = "done" /\ Len(todo) > 0
    /\ block.center.i > 0 /\ block.center.j = cols - 1
    /\ Len(executed) < Shifts * Variants

(* The features of a grid g, stated cell by cell. *)
HoleCells(g) ==
    {rc \in (1..Len(g)) \X (1..Len(g[1])) :
        g[rc[1]][rc[2]] = 0 /\ \E q \in 1..(rc[1] - 1) : g[q][rc[2]] # 0}

TopOf(g, c) == CHOOSE r \in 1..Len(g) :
                  g[r][c] # 0 /\ \A q \in 1..(r - 1) : g[q][c] = 0

HeightOf(g, c) ==
    IF \A r \in 1..Len(g) : g[r][c] = 0 THEN 0 ELSE Len(g) - TopOf(g, c) + 1

Highest(g) == CHOOSE h \in {HeightOf(g, c) : c \in 1..Len(g[1])} :
                 \A c \in 1..Len(g[1]) : HeightOf(g, c) <= h

RECURSIVE StepSum(_, _)
StepSum(g, c) ==
    IF c <= 1 THEN 0
    ELSE StepSum(g, c - 1) +
         (IF HeightOf(g, c) >= HeightOf(g, c - 1)
          THEN HeightOf(g, c) - HeightOf(g, c - 1)
          ELSE HeightOf(g, c - 1) - HeightOf(g, c))

RECURSIVE WeightSum(_, _)
WeightSum(g, r) ==
    IF r = 0 THEN 0
    ELSE WeightSum(g, r - 1) +
         (Len(g) - r + 1) * Cardinality({c \in 1..Len(g[1]) : g[r][c] # 0})

(* C17: evaluate is minus the number of holes (zero cells below an occupied  *)
(* cell of their column), minus the largest column height, minus the sum of  *)
(* the height differences of neighbouring columns; height_penalty, the sum   *)
(* of rows - row over the occupied cells, is no part of it.  On the grid of  *)
(* the self-test the features are 1, 3, 0 and 16.                            *)
ScoreFormula ==
    op = "evaluate" =>
        /\ before.num_holes = Cardinality(HoleCells(bitmap))
        /\ before.max_height = Highest(bitmap)
        /\ before.height_variance = StepSum(bitmap, Len(bitmap[1]))
        /\ before.height_penalty = WeightSum(bitmap, Len(bitmap))
        /\ before.evaluate = 0 - Cardinality(HoleCells(bitmap)) - Highest(bitmap)
                                - StepSum(bitmap, Len(bitmap[1]))
        /\ bitmap = test_board =>
              /\ before.num_holes = 1 /\ before.max_height = 3
              /\ before.height_variance = 0 /\ before.height_penalty = 16
              /\ before.evaluate = -4

(* A grid of three columns has been scored whose height differences to the   *)
(* column before add up to more than its height differences to column 0,     *)
(* and which has a hole.                                                      *)
ScoreFormulaWitness ==
    /\ op = "evaluate"
    /\ Len(bitmap[1]) = 3
    /\ before.num_holes > 0
    /\ before.height_variance >
          abs(HeightOf(bitmap, 2) - HeightOf(bitmap, 1))
            + abs(HeightOf(bitmap, 3) - HeightOf(bitmap, 1))
    /\ before.height_penalty > 0
    /\ before.evaluate < 0 - before.max_height

AtSpawn(b) == b.translation = Point(0, 0) /\ b.rotation = 0

(* C18: executing a candidate list leaves the probing piece where step 4b    *)
(* put it: after every execution, and so whenever a shift iteration begins,  *)
(* the piece of the search is at its spawn pose.                             *)
ExecutionLeavesProbeAtSpawn ==
    /\ (op = "do_commands" /\ pc = "variants") => AtSpawn(block)
    /\ pc = "for" => AtSpawn(block)

(* C19: whenever a probing step of the search is about to start or has       *)
(* returned, the piece is legal on the board.                                *)
ProbingPieceLegal ==
    (check(bitmap, reset_position(block)) /\ pc \in {"left", "right", "down"}) =>
        check(bitmap, block)

Run(token, n) == [k \in 1..n |-> token]

(* The shift and the number of rotate tokens of the execution counted n. *)
ShiftOf(n) == (n - 1) \div Variants
TurnsOf(n) == ((n - 1) % Variants) + 1

(* C20: the list of every execution is left tokens, then exactly shift right *)
(* tokens, then down tokens, then 1, 2 or 3 rotate tokens for the first,     *)
(* second or third execution of the shift; the three lists of a shift        *)
(* differ in the rotate tokens only, and so does every recorded list.        *)
CandidateShape ==
    /\ [](op = "do_commands" =>
            \E a \in 0..cols : \E d \in 0..rows :
               arg = Run("left", a) \o Run("right", ShiftOf(nexec))
                       \o Run("down", d) \o Run("rotate", TurnsOf(nexec)))
    /\ []((op = "do_commands" /\ pc = "variants") =>
            (shift = ShiftOf(nexec) /\ variant = TurnsOf(nexec) /\ moves = arg))
    /\ [](\A n \in 1..Len(executed) :
            /\ Count(executed[n].moves, "rotate", Len(executed[n].moves))
                  \in 1..Variants
            /\ executed[n].moves[Len(executed[n].moves)] = "rotate")
    /\ [](pc \in {"left", "right"} => Count(moves, "left", Len(moves)) = Len(moves))
    /\ [][(nexec' # nexec /\ variant >= 1) => arg' = Append(arg, "rotate")]_vars
    /\ [][(nexec' # nexec /\ variant = 0) =>
             Count(arg', "rotate", Len(arg')) = 1]_vars

(* Within a shift every execution after the first is handed the list of the   *)
(* execution before it with one more rotate.                                  *)
CandidateShapeWitness ==
    /\ op = "do_commands" /\ nexec = Shifts * Variants
    /\ Count(arg, "left", Len(arg)) = 0
    /\ Count(arg, "right", Len(arg)) = Shifts - 1
    /\ Count(arg, "rotate", Len(arg)) = Variants
    /\ ret.kind = "Board"

====
